---- MODULE Spec2Model ----
(***************************************************************************)
(* Model of the single-page router (router.ts), the two pages it mounts    *)
(* (HomePage.ts, NotFoundPage.ts), the bootstrap (main.ts) and the part of *)
(* Scene3D.ts that the page lifecycle and the camera controls drive.       *)
(*                                                                         *)
(* Spec is the router under any registrations; AppSpec is the application  *)
(* as main.ts registers it, with the events that reach the scene; PageSpec *)
(* is one HomePage with its checkboxes; SceneSpec is one Scene3D with its  *)
(* public methods and events, SceneLiveSpec the same with a fair timer.    *)
(*                                                                         *)
(* Strings that the code inspects character by character (URLs, origins,   *)
(* pathnames, attribute values) are sequences of one-character strings.    *)
(* Object references (Page instances, elements, scenes) are positive       *)
(* indices into the sequences that hold the objects; 0 is null/undefined.  *)
(***************************************************************************)
EXTENDS Integers, Sequences, FiniteSets, TLC

\* ---------------------------------------------------------------- bounds
\* Page instances ever constructed by addRoute.
MaxInst == 2
\* Root elements ever produced by create().
MaxEl == 2
\* Entries of the session history.
MaxHist == 2
\* create() calls on a HomePage that is studied by itself.
MaxCreates == 1

\* ------------------------------------------------------- strings and URLs
Root == <<"/">>
PathX == <<"/", "x">>
Star == <<"*">>

\* The pathnames a location can take in the model.
Pathnames == {Root, PathX}

\* The keys addRoute is called with: a literal pathname or the wildcard.
RouteKeys == Pathnames \cup {Star}

\* window.location.origin of the document the application runs in.
LocationOrigin == <<"h", ":", "/", "/", "a">>

\* encoding of a null / undefined reference
NullRef == 0

StartsWith(s, p) ==
  /\ Len(p) <= Len(s)
  /\ SubSeq(s, 1, Len(p)) = p

\* Index of the first "/" of the path part of an absolute URL (one past the
\* end when the URL has no path part), as the URL parser finds it.
PathStart(u) ==
  LET schemeEnd == CHOOSE i \in 1..Len(u) :
                     /\ i + 2 <= Len(u)
                     /\ u[i] = ":" /\ u[i + 1] = "/" /\ u[i + 2] = "/"
                     /\ \A j \in 1..(i - 1) : u[j] # ":"
      slashes == {k \in (schemeEnd + 3)..Len(u) : u[k] = "/"}
  IN IF slashes = {} THEN Len(u) + 1
     ELSE CHOOSE k \in slashes : \A m \in slashes : k <= m

\* URL.origin: scheme, host and port.
OriginOf(u) == SubSeq(u, 1, PathStart(u) - 1)

\* HTMLAnchorElement.pathname.
PathnameOf(u) ==
  IF PathStart(u) > Len(u) THEN Root ELSE SubSeq(u, PathStart(u), Len(u))

\* data-external: absent, present with an empty value, present with a value.
NoMarker == [has |-> FALSE, val |-> <<>>]
EmptyMarker == [has |-> TRUE, val |-> <<>>]
ValueMarker == [has |-> TRUE, val |-> <<"1">>]

\* An origin whose text extends the text of the document's origin, and one
\* that shares no more than the scheme with it.
ExtendingOrigin == LocationOrigin \o <<"b">>
OtherOrigin == <<"h", ":", "/", "/", "c">>

\* The anchors a click can land in: resolved href and data-external.
Anchors ==
  { [href |-> LocationOrigin \o Root, external |-> NoMarker],
    [href |-> LocationOrigin \o PathX, external |-> NoMarker],
    [href |-> LocationOrigin \o PathX, external |-> ValueMarker],
    [href |-> LocationOrigin \o PathX, external |-> EmptyMarker],
    [href |-> ExtendingOrigin \o PathX, external |-> NoMarker],
    [href |-> OtherOrigin \o PathX, external |-> NoMarker] }

\* The click target is inside no anchor: closest('a') is null.
NoAnchor == [href |-> <<>>, external |-> NoMarker]

\* JavaScript truthiness of anchor.dataset.external: undefined when the
\* attribute is absent, otherwise its string value; "" is falsy.
DatasetExternalTruthy(a) == a.external.has /\ Len(a.external.val) > 0

\* Pathnames of the links matched by '.nav a'.
NavLinks == {Root, PathX}

\* ------------------------------------------------------------------ state
VARIABLES
  routes,       \* Router.routes: key -> Page instance
  pages,        \* the Page instances: class, element, element tree, scene
  scenes,       \* the Scene3D objects constructed so far
  elements,     \* number of root elements produced by create() so far
  container,    \* children of the Router's container element
  currentPage,  \* Router.currentPage
  title,        \* document.title
  scrollY,      \* window scroll position
  history,      \* session history entries (pathnames)
  histIdx,      \* index of the current entry; location = history[histIdx]
  active,       \* nav link pathname -> carries class 'active'
  log           \* calls made by the most recent operation, in order

vars == <<routes, pages, scenes, elements, container, currentPage, title,
          scrollY, history, histIdx, active, log>>

\* The state as one record, so that handlers are functions of it.
State ==
  [routes |-> routes, pages |-> pages, scenes |-> scenes,
   elements |-> elements, container |-> container,
   currentPage |-> currentPage, title |-> title, scrollY |-> scrollY,
   history |-> history, histIdx |-> histIdx, active |-> active,
   log |-> <<>>]

Call(s, op, arg) == [s EXCEPT !.log = Append(@, [op |-> op, arg |-> arg])]

\* window.location.pathname
Location(s) == s.history[s.histIdx]

\* --------------------------------------------------------------- Scene3D
\* The sidebar checkboxes of the home page, in the order initSceneControls
\* takes them; each stands for the scene object it shows or hides.
CheckboxOrder ==
  <<"pole", "equator", "longitude", "latitude", "stats", "rendererInfo">>

Checkboxes == {CheckboxOrder[k] : k \in DOMAIN CheckboxOrder}

\* The two overlays the constructor makes; the other four objects are made
\* by initialize().
DomOverlays == {"stats", "rendererInfo"}

\* The Scene3D method behind each checkbox.
ToggleName(c) ==
  CASE c = "pole" -> "togglePoleVisibility"
    [] c = "equator" -> "toggleEquatorVisibility"
    [] c = "longitude" -> "toggleLongitudeLinesVisibility"
    [] c = "latitude" -> "toggleLatitudeLinesVisibility"
    [] c = "stats" -> "toggleStatsVisibility"
    [] c = "rendererInfo" -> "toggleRendererInfoVisibility"

ToggleNames == {ToggleName(c) : c \in Checkboxes}

\* a boolean argument as it is written to the log
BoolArg(v) == IF v THEN 1 ELSE 0

\* An identifier the browser has not handed out among those in use.
FreshId(used) ==
  CHOOSE n \in 1..(Cardinality(used) + 1) :
    /\ n \notin used
    /\ \A m \in 1..(n - 1) : m \in used

\* The fields of a Scene3D after its constructor: no frame requested, no
\* timer, auto-rotation on, the control listeners attached, both overlays
\* hidden. frames and timers are the browser's side: the requested frames
\* and the timeouts of this scene that are still pending; controlStarted
\* and interacting are the controls' side: a controlstart event has been
\* dispatched, and the last one has not been followed by its controlend;
\* firstInteractionCalls counts the runs of the onFirstInteraction callback
\* the page passed in.
NewScene ==
  [disposeCount |-> 0,
   initialized |-> FALSE,
   animationId |-> NullRef,
   frames |-> {},
   inactivityTimeoutId |-> NullRef,
   timers |-> {},
   autoRotateEnabled |-> TRUE,
   autoRotateAllowed |-> TRUE,
   firstInteractionDone |-> FALSE,
   firstInteractionCalls |-> 0,
   controlStarted |-> FALSE,
   interacting |-> FALSE,
   listening |-> TRUE,
   visible |-> [c \in Checkboxes |-> c \notin DomOverlays]]

SceneAnimate_IdNotKept(s, sc) ==
  LET id == FreshId(s.scenes[sc].frames \cup {s.scenes[sc].animationId})
  IN [s EXCEPT !.scenes[sc].frames = @ \cup {id}]

\* Scene3D.animate: request the next frame (what the frame renders is not
\* part of the model)
SceneAnimate(s, sc) ==
  LET id == FreshId(s.scenes[sc].frames \cup {s.scenes[sc].animationId})
  IN [s EXCEPT !.scenes[sc].frames = @ \cup {id},
               !.scenes[sc].animationId = id]

\* Scene3D.initialize: builds the scene objects and starts the frame loop
SceneInitialize(s, sc) ==
  SceneAnimate(Call([s EXCEPT !.scenes[sc].initialized = TRUE],
                    "initialize", sc), sc)

\* the browser runs the requested frame id of scene sc
OnFrame(s, sc, id) ==
  SceneAnimate([s EXCEPT !.scenes[sc].frames = @ \ {id}], sc)

\* clearTimeout(this.inactivityTimeoutId) when the field is not null
ClearInactivity(s, sc) ==
  IF s.scenes[sc].inactivityTimeoutId # NullRef
  THEN [s EXCEPT !.scenes[sc].timers = @ \ {s.scenes[sc].inactivityTimeoutId}]
  ELSE s

HandleControlStart_EveryTime(s, sc) ==
  LET s1 == [ClearInactivity(Call(s, "handleControlStart", sc), sc)
               EXCEPT !.scenes[sc].autoRotateEnabled = FALSE,
                      !.scenes[sc].inactivityTimeoutId = NullRef]
  IN Call([s1 EXCEPT !.scenes[sc].firstInteractionCalls = @ + 1,
                     !.scenes[sc].firstInteractionDone = TRUE],
          "onFirstInteraction", sc)

\* Scene3D.handleControlStart
HandleControlStart(s, sc) ==
  LET s1 == [ClearInactivity(Call(s, "handleControlStart", sc), sc)
               EXCEPT !.scenes[sc].autoRotateEnabled = FALSE,
                      !.scenes[sc].inactivityTimeoutId = NullRef]
  IN IF ~s1.scenes[sc].firstInteractionDone
     THEN Call([s1 EXCEPT !.scenes[sc].firstInteractionCalls = @ + 1,
                          !.scenes[sc].firstInteractionDone = TRUE],
               "onFirstInteraction", sc)
     ELSE s1

HandleControlEnd_NoClear(s, sc) ==
  LET s1 == Call(s, "handleControlEnd", sc)
      id == FreshId(s1.scenes[sc].timers
                      \cup {s1.scenes[sc].inactivityTimeoutId})
  IN IF s1.scenes[sc].autoRotateAllowed
     THEN [s1 EXCEPT !.scenes[sc].timers = @ \cup {id},
                     !.scenes[sc].inactivityTimeoutId = id]
     ELSE s1

\* Scene3D.handleControlEnd
HandleControlEnd(s, sc) ==
  LET s1 == ClearInactivity(Call(s, "handleControlEnd", sc), sc)
      id == FreshId(s1.scenes[sc].timers
                      \cup {s1.scenes[sc].inactivityTimeoutId})
  IN IF s1.scenes[sc].autoRotateAllowed
     THEN [s1 EXCEPT !.scenes[sc].timers = @ \cup {id},
                     !.scenes[sc].inactivityTimeoutId = id]
     ELSE s1

OnInactivityTimeout_NoResume(s, sc, id) ==
  [s EXCEPT !.scenes[sc].timers = @ \ {id}]

\* the callback handleControlEnd passes to setTimeout
OnInactivityTimeout(s, sc, id) ==
  [s EXCEPT !.scenes[sc].timers = @ \ {id},
            !.scenes[sc].autoRotateEnabled = TRUE]

\* Scene3D.toggleAutoRotate(enabled)
SceneToggleAutoRotate(s, sc, enabled) ==
  Call([s EXCEPT !.scenes[sc].autoRotateAllowed = enabled,
                 !.scenes[sc].autoRotateEnabled = enabled],
       "toggleAutoRotate", BoolArg(enabled))

\* The object behind checkbox c exists in the scene: the overlays from the
\* constructor until dispose() drops them, the others from initialize() on.
ObjectExists(scene, c) ==
  IF c \in DomOverlays THEN scene.disposeCount = 0 ELSE scene.initialized

SceneToggle_AllObjects(s, sc, c, v) ==
  Call([s EXCEPT !.scenes[sc].visible = [o \in Checkboxes |-> v]],
       ToggleName(c), BoolArg(v))

\* Scene3D.toggle<c>Visibility(v)
SceneToggle(s, sc, c, v) ==
  Call(IF ObjectExists(s.scenes[sc], c)
       THEN [s EXCEPT !.scenes[sc].visible[c] = v]
       ELSE s,
       ToggleName(c), BoolArg(v))

SceneDispose_KeepTimer(s, sc) ==
  LET scene == s.scenes[sc]
      s1 == IF scene.animationId # NullRef
            THEN [s EXCEPT !.scenes[sc].frames = @ \ {scene.animationId},
                           !.scenes[sc].animationId = NullRef]
            ELSE s
      s2 == [s1 EXCEPT !.scenes[sc].listening = FALSE]
  IN Call([s2 EXCEPT !.scenes[sc].disposeCount = @ + 1], "dispose", sc)

\* Scene3D.dispose: cancels the requested frame, removes the control
\* listeners, clears the inactivity timer
SceneDispose(s, sc) ==
  LET scene == s.scenes[sc]
      s1 == IF scene.animationId # NullRef
            THEN [s EXCEPT !.scenes[sc].frames = @ \ {scene.animationId},
                           !.scenes[sc].animationId = NullRef]
            ELSE s
      s2 == [ClearInactivity(s1, sc)
               EXCEPT !.scenes[sc].listening = FALSE,
                      !.scenes[sc].inactivityTimeoutId = NullRef]
  IN Call([s2 EXCEPT !.scenes[sc].disposeCount = @ + 1], "dispose", sc)

\* ----------------------------------------------------------------- pages
\* what a page holds while it has no element
NoTree == [kind |-> "none"]

\* The markup HomePage.create() assigns to its root element: the viewport
\* container, the canvas overlay and six checked checkboxes; listeners are
\* the checkboxes that carry a change listener.
HomeTemplate ==
  [kind |-> "home-page-layout",
   sceneContainer |-> TRUE,
   canvasOverlay |-> TRUE,
   checked |-> [c \in Checkboxes |-> TRUE],
   listeners |-> {}]

\* The markup NotFoundPage.create() assigns to its root element.
NotFoundTemplate ==
  [kind |-> "not-found",
   heading |-> "404 - Page Not Found",
   backHref |-> Root]

HomeTitle == "3D Experience | Home"
NotFoundTitle == "404 - Page Not Found"

HomeInitScene_NoGuard(s, i) ==
  LET sc == Len(s.scenes) + 1
  IN SceneInitialize(
       Call([s EXCEPT !.scenes = Append(@, NewScene),
                      !.pages[i].scene = sc],
            "newScene", sc), sc)

\* HomePage.initScene
HomeInitScene(s, i) ==
  IF /\ s.pages[i].element # NullRef
     /\ s.pages[i].tree.sceneContainer
     /\ s.pages[i].tree.canvasOverlay
  THEN LET sc == Len(s.scenes) + 1
       IN SceneInitialize(
            Call([s EXCEPT !.scenes = Append(@, NewScene),
                           !.pages[i].scene = sc],
                 "newScene", sc), sc)
  ELSE s

\* initSceneControls: the addEventListener('change', ...) calls, one per
\* checkbox, as they appear in the log
WireLog ==
  [k \in DOMAIN CheckboxOrder |-> [op |-> "addChangeListener", arg |-> k]]

\* initSceneControls: the six toggle calls that apply the checkboxes'
\* states, as they appear in the log
ApplyLog(checked) ==
  [k \in DOMAIN CheckboxOrder |->
     [op |-> ToggleName(CheckboxOrder[k]),
      arg |-> BoolArg(checked[CheckboxOrder[k]])]]

\* what the six toggle calls leave in scene.visible
ApplyVisible(scene, checked) ==
  [c \in Checkboxes |->
     IF ObjectExists(scene, c) THEN checked[c] ELSE scene.visible[c]]

HomeInitSceneControls_ApplyFirst(s, i) ==
  IF s.pages[i].element = NullRef \/ s.pages[i].scene = NullRef THEN s
  ELSE LET sc == s.pages[i].scene
           checked == s.pages[i].tree.checked
       IN [s EXCEPT !.pages[i].tree.listeners = Checkboxes,
                    !.scenes[sc].visible = ApplyVisible(s.scenes[sc], checked),
                    !.log = @ \o ApplyLog(checked) \o WireLog]

\* HomePage.initSceneControls: a change listener on each of the six
\* checkboxes, then each toggle once with its checkbox's state
HomeInitSceneControls(s, i) ==
  IF s.pages[i].element = NullRef \/ s.pages[i].scene = NullRef THEN s
  ELSE LET sc == s.pages[i].scene
           checked == s.pages[i].tree.checked
       IN [s EXCEPT !.pages[i].tree.listeners = Checkboxes,
                    !.scenes[sc].visible = ApplyVisible(s.scenes[sc], checked),
                    !.log = @ \o WireLog \o ApplyLog(checked)]

OnChange_PreviousValue(s, i, c) ==
  IF s.pages[i].scene # NullRef
  THEN SceneToggle(s, s.pages[i].scene, c, ~s.pages[i].tree.checked[c])
  ELSE s

\* The change listener of checkbox c.
OnChange(s, i, c) ==
  IF s.pages[i].scene # NullRef
  THEN SceneToggle(s, s.pages[i].scene, c, s.pages[i].tree.checked[c])
  ELSE s

\* The user clicks checkbox c of the page's element: the checkbox flips and
\* its change event runs the listener, when one is attached.
UserChange(s, i, c) ==
  LET s1 == [s EXCEPT !.pages[i].tree.checked[c] = ~@]
  IN IF c \in s1.pages[i].tree.listeners THEN OnChange(s1, i, c) ELSE s1

\* HomePage.create on an element whose markup is tpl: the root element,
\* then initScene, initSidebarToggles (which only adds the listeners of the
\* sidebar collapse buttons) and initSceneControls
HomeCreateWith(s, i, tpl) ==
  LET el == s.elements + 1
      s1 == [s EXCEPT !.elements = el,
                      !.pages[i].element = el,
                      !.pages[i].tree = tpl]
  IN HomeInitSceneControls(HomeInitScene(s1, i), i)

\* HomePage.create
HomeCreate(s, i) == HomeCreateWith(s, i, HomeTemplate)

HomeDestroy_KeepScene(s, i) ==
  LET s1 == IF s.pages[i].scene # NullRef
            THEN SceneDispose(s, s.pages[i].scene)
            ELSE s
  IN [s1 EXCEPT !.pages[i].element = NullRef, !.pages[i].tree = NoTree]

\* HomePage.destroy
HomeDestroy(s, i) ==
  LET s1 == IF s.pages[i].scene # NullRef
            THEN [SceneDispose(s, s.pages[i].scene)
                    EXCEPT !.pages[i].scene = NullRef]
            ELSE s
  IN [s1 EXCEPT !.pages[i].element = NullRef, !.pages[i].tree = NoTree]

NotFoundCreate_LinksBack(s, i) ==
  [s EXCEPT !.elements = s.elements + 1,
            !.pages[i].element = s.elements + 1,
            !.pages[i].tree = [NotFoundTemplate
                                 EXCEPT !.backHref = Location(s)]]

\* NotFoundPage.create
NotFoundCreate(s, i) ==
  [s EXCEPT !.elements = s.elements + 1,
            !.pages[i].element = s.elements + 1,
            !.pages[i].tree = NotFoundTemplate]

\* NotFoundPage.destroy
NotFoundDestroy(s, i) ==
  [s EXCEPT !.pages[i].element = NullRef, !.pages[i].tree = NoTree]

\* page.create() through the Page interface; the element it returns is
\* s'.pages[i].element
PageCreate(s, i) ==
  LET s1 == Call(s, "create", i)
  IN IF s.pages[i].cls = "Home" THEN HomeCreate(s1, i)
     ELSE NotFoundCreate(s1, i)

\* page.destroy() through the Page interface
PageDestroy(s, i) ==
  LET s1 == Call(s, "destroy", i)
  IN IF s.pages[i].cls = "Home" THEN HomeDestroy(s1, i)
     ELSE NotFoundDestroy(s1, i)

\* page.getTitle()
PageTitle(s, i) ==
  IF s.pages[i].cls = "Home" THEN HomeTitle ELSE NotFoundTitle

\* ---------------------------------------------------------------- Router
\* Map.get: undefined for an absent key
RoutesGet(r, key) == IF key \in DOMAIN r THEN r[key] ELSE NullRef

RoutesSet_KeepFirst(r, key, val) ==
  [k \in (DOMAIN r) \cup {key} |-> IF k \in DOMAIN r THEN r[k] ELSE val]

\* Map.set
RoutesSet(r, key, val) ==
  [k \in (DOMAIN r) \cup {key} |-> IF k = key THEN val ELSE r[k]]

\* The page handleRouteChange resolves the current location to.
Resolve(s) ==
  LET page == RoutesGet(s.routes, Location(s))
  IN IF page = NullRef THEN RoutesGet(s.routes, Star) ELSE page

\* handleRouteChange: cleanup of the current page, if one exists
Teardown(s) ==
  IF s.currentPage # NullRef THEN PageDestroy(s, s.currentPage) ELSE s

\* handleRouteChange: container.innerHTML = ''
ClearContainer(s) == Call([s EXCEPT !.container = <<>>], "clear", NullRef)

MountPage_EarlierElement(s, page) ==
  LET s1 == PageCreate(s, page)
      el == IF s.elements > 0 THEN s.elements ELSE s1.pages[page].element
  IN Call([s1 EXCEPT !.container = Append(@, el)], "append", el)

\* handleRouteChange: page.create() and appendChild of what it returns
MountPage(s, page) ==
  LET s1 == PageCreate(s, page)
  IN Call([s1 EXCEPT !.container = Append(@, s1.pages[page].element)],
          "append", s1.pages[page].element)

\* handleRouteChange: record the page, set the title, scroll to the top
Finish(s, page) ==
  Call([s EXCEPT !.currentPage = page,
                 !.title = PageTitle(s, page),
                 !.scrollY = 0],
       "scrollTo", NullRef)

HandleRouteChange_SkipSamePage(s) ==
  LET page == Resolve(s)
      h == Call(s, "handleRouteChange", NullRef)
  IN IF page = NullRef THEN h
     ELSE Finish(MountPage(ClearContainer(
            IF page = s.currentPage THEN h ELSE Teardown(h)), page), page)

HandleRouteChange_NoClear(s) ==
  LET page == Resolve(s)
      h == Call(s, "handleRouteChange", NullRef)
  IN IF page = NullRef THEN h
     ELSE Finish(MountPage(Teardown(h), page), page)

HandleRouteChange_ExactOnly(s) ==
  LET page == RoutesGet(s.routes, Location(s))
      h == Call(s, "handleRouteChange", NullRef)
  IN IF page = NullRef THEN h
     ELSE Finish(MountPage(ClearContainer(Teardown(h)), page), page)

HandleRouteChange_AlwaysScroll(s) ==
  LET page == Resolve(s)
      h == Call(s, "handleRouteChange", NullRef)
  IN IF page = NullRef
     THEN Call([h EXCEPT !.scrollY = 0], "scrollTo", NullRef)
     ELSE Finish(MountPage(ClearContainer(Teardown(h)), page), page)

HandleRouteChange_StaleTitle(s) ==
  LET page == Resolve(s)
      h == Call(s, "handleRouteChange", NullRef)
  IN IF page = NullRef THEN h
     ELSE LET m == MountPage(ClearContainer(Teardown(h)), page)
          IN [Finish(m, page) EXCEPT !.title =
                IF s.currentPage # NullRef THEN PageTitle(s, s.currentPage)
                ELSE PageTitle(s, page)]

HandleRouteChange_CreateFirst(s) ==
  LET page == Resolve(s)
      h == Call(s, "handleRouteChange", NullRef)
  IN IF page = NullRef THEN h
     ELSE LET c == PageCreate(h, page)
              el == c.pages[page].element
              d == ClearContainer(Teardown(c))
          IN Finish(Call([d EXCEPT !.container = Append(@, el)],
                         "append", el), page)

\* Router.handleRouteChange
HandleRouteChange(s) ==
  LET page == Resolve(s)
      h == Call(s, "handleRouteChange", NullRef)
  IN IF page = NullRef THEN h
     ELSE Finish(MountPage(ClearContainer(Teardown(h)), page), page)

SetupNavHighlighting_AddOnly(s) ==
  Call([s EXCEPT !.active = [l \in NavLinks |-> @[l] \/ l = Location(s)]],
       "setupNavHighlighting", NullRef)

\* Router.setupNavHighlighting
SetupNavHighlighting(s) ==
  Call([s EXCEPT !.active = [l \in NavLinks |-> l = Location(s)]],
       "setupNavHighlighting", NullRef)

\* history.pushState({}, '', path) with an absolute pathname
PushState(s, path) ==
  Call([s EXCEPT !.history = Append(SubSeq(s.history, 1, s.histIdx), path),
                 !.histIdx = s.histIdx + 1],
       "pushState", NullRef)

\* Router.start
RouterStart(s) == SetupNavHighlighting(HandleRouteChange(s))

RouterNavigate_ResolveFirst(s, path) ==
  SetupNavHighlighting(PushState(HandleRouteChange(s), path))

\* Router.navigate
RouterNavigate(s, path) ==
  SetupNavHighlighting(HandleRouteChange(PushState(s, path)))

\* Router.addRoute
RouterAddRoute(s, key, cls) ==
  [s EXCEPT !.pages = Append(@, [cls |-> cls, element |-> NullRef,
                                 scene |-> NullRef, tree |-> NoTree]),
            !.routes = RoutesSet(@, key, Len(s.pages) + 1)]

\* The condition under which the document click listener takes over.
ClickIntercepted(a) ==
  /\ a # NoAnchor
  /\ StartsWith(a.href, LocationOrigin)
  /\ ~DatasetExternalTruthy(a)

OnClick_NavigateRoot(s, a) ==
  IF ClickIntercepted(a)
  THEN RouterNavigate(Call(s, "preventDefault", NullRef), Root)
  ELSE s

\* The document click listener installed by the Router constructor.
OnClick(s, a) ==
  IF ClickIntercepted(a)
  THEN RouterNavigate(Call(s, "preventDefault", NullRef), PathnameOf(a.href))
  ELSE s

OnPopstate_Navigate(s) == RouterNavigate(s, Location(s))

\* The popstate listener installed by the Router constructor.
OnPopstate(s) == HandleRouteChange(s)

\* ---------------------------------------------------------------- actions
Commit(s) ==
  /\ routes' = s.routes
  /\ pages' = s.pages
  /\ scenes' = s.scenes
  /\ elements' = s.elements
  /\ container' = s.container
  /\ currentPage' = s.currentPage
  /\ title' = s.title
  /\ scrollY' = s.scrollY
  /\ history' = s.history
  /\ histIdx' = s.histIdx
  /\ active' = s.active
  /\ log' = s.log

\* A handler may run only while the model can still hold what it creates.
Fits(s) ==
  /\ s.elements <= MaxEl
  /\ Len(s.history) <= MaxHist

Init ==
  /\ routes = <<>>
  /\ pages = <<>>
  /\ scenes = <<>>
  /\ elements = 0
  /\ container = <<>>
  /\ currentPage = NullRef
  /\ title = "index"
  /\ scrollY = 0
  /\ history \in {<<p>> : p \in Pathnames}
  /\ histIdx = 1
  /\ active = [l \in NavLinks |-> FALSE]
  /\ log = <<>>

\* router.addRoute(key, cls)
AddRoute ==
  \E key \in RouteKeys, cls \in {"Home", "NotFound"} :
    /\ Len(pages) < MaxInst
    /\ Commit(RouterAddRoute(State, key, cls))

\* router.start()
Start ==
  LET s == RouterStart(State)
  IN /\ Fits(s)
     /\ Commit(s)

\* router.navigate(path)
NavigateTo(path) ==
  LET s == RouterNavigate(State, path)
  IN /\ Fits(s)
     /\ Commit(s)

\* router.navigate with any pathname
Navigate == \E path \in Pathnames : NavigateTo(path)

\* a click inside anchor a, or inside no anchor
ClickOn(a) ==
  LET s == OnClick(State, a)
  IN /\ Fits(s)
     /\ Commit(s)

\* a click somewhere in the document
Click == \E a \in Anchors \cup {NoAnchor} : ClickOn(a)

\* the browser traverses the session history by delta (back or forward
\* button): it moves the current entry and fires popstate
PopstateBy(delta) ==
  LET moved == [State EXCEPT !.histIdx = histIdx + delta]
      s == OnPopstate(moved)
  IN /\ histIdx + delta \in 1..Len(history)
     /\ Fits(s)
     /\ Commit(s)

\* a traversal one entry back or one entry forward
Popstate == \E delta \in {-1, 1} : PopstateBy(delta)

\* the user scrolls the mounted page down (an empty container leaves nothing
\* to scroll)
Scroll ==
  /\ container # <<>>
  /\ scrollY = 0
  /\ scrollY' = 1
  /\ log' = <<>>
  /\ UNCHANGED <<routes, pages, scenes, elements, container, currentPage,
                 title, history, histIdx, active>>

Next ==
  \/ AddRoute
  \/ Start
  \/ Navigate
  \/ Click
  \/ Popstate
  \/ Scroll

Spec == Init /\ [][Next]_vars

\* ------------------------------------------- the application with a scene
\* main.ts: the two registrations made before router.start()
Boot(s) == RouterAddRoute(RouterAddRoute(s, Root, "Home"), Star, "NotFound")

\* The state main.ts leaves before router.start(), at either location.
AppInit ==
  /\ Init
  /\ Len(history) = 1

\* main.ts: addRoute('/', HomePage) and addRoute('*', NotFoundPage), which
\* happen once and together
AppBoot ==
  /\ pages = <<>>
  /\ Commit(Boot(State))

\* the camera controls dispatch controlstart to scene sc
ControlStartOn(sc) ==
  /\ scenes[sc].listening
  /\ Commit([HandleControlStart(State, sc)
               EXCEPT !.scenes[sc].controlStarted = TRUE,
                      !.scenes[sc].interacting = TRUE])

ControlStart == \E sc \in DOMAIN scenes : ControlStartOn(sc)

\* the camera controls dispatch controlend to scene sc
ControlEnd ==
  \E sc \in DOMAIN scenes :
    /\ scenes[sc].listening
    /\ Commit([HandleControlEnd(State, sc)
                 EXCEPT !.scenes[sc].interacting = FALSE])

\* a pending inactivity timeout of a scene expires
InactivityTimeout ==
  \E sc \in DOMAIN scenes :
    \E id \in scenes[sc].timers : Commit(OnInactivityTimeout(State, sc, id))

\* the browser runs a requested animation frame of a scene
Frame ==
  \E sc \in DOMAIN scenes :
    \E id \in scenes[sc].frames : Commit(OnFrame(State, sc, id))

\* main.ts calls router.start() after the registrations, and navigation
\* and history traversal reach the router from then on
AppStart == pages # <<>> /\ Start
AppNavigate == pages # <<>> /\ Navigate
AppPopstate == pages # <<>> /\ Popstate

AppNext ==
  \/ AppBoot
  \/ AppStart
  \/ AppNavigate
  \/ AppPopstate
  \/ ControlStart
  \/ ControlEnd
  \/ InactivityTimeout
  \/ Frame

\* The application as main.ts sets it up, and the events that reach the
\* scene of the mounted home page.
AppSpec == AppInit /\ [][AppNext]_vars

\* -------------------------------------------------- one Scene3D by itself
\* no scene constructed yet
SceneInit ==
  /\ Init
  /\ history = <<Root>>

\* new Scene3D(container, callback) followed by initialize(), as initScene
\* does
SceneConstruct ==
  /\ scenes = <<>>
  /\ Commit(SceneInitialize(
              Call([State EXCEPT !.scenes = Append(@, NewScene)],
                   "newScene", 1), 1))

\* the owner calls toggleAutoRotate on a scene it has not disposed
ToggleAutoRotate ==
  \E sc \in DOMAIN scenes, enabled \in BOOLEAN :
    /\ scenes[sc].disposeCount = 0
    /\ Commit(SceneToggleAutoRotate(State, sc, enabled))

\* the owner calls a visibility toggle on a scene it has not disposed
ToggleVisibility ==
  \E sc \in DOMAIN scenes, c \in Checkboxes, v \in BOOLEAN :
    /\ scenes[sc].disposeCount = 0
    /\ Commit(SceneToggle(State, sc, c, v))

\* the owner disposes the scene
Dispose ==
  \E sc \in DOMAIN scenes :
    /\ scenes[sc].disposeCount = 0
    /\ Commit(SceneDispose(State, sc))

SceneNext ==
  \/ SceneConstruct
  \/ ControlStart
  \/ ControlEnd
  \/ InactivityTimeout
  \/ Frame
  \/ ToggleAutoRotate
  \/ ToggleVisibility
  \/ Dispose

\* A Scene3D under every use of its public methods and its events.
SceneSpec == SceneInit /\ [][SceneNext]_vars

\* The same, with the browser's timers: a timeout that stays pending
\* expires.
SceneLiveSpec == SceneSpec /\ WF_vars(InactivityTimeout)

\* ------------------------------------------------- one HomePage by itself
\* The markups create() can find in its element: the template, and the
\* template with the viewport container or the canvas overlay taken out.
Markups ==
  {[HomeTemplate EXCEPT !.sceneContainer = v, !.canvasOverlay = o] :
     v \in BOOLEAN, o \in BOOLEAN}

\* a HomePage constructed and not yet created
PageInit ==
  /\ Init
  /\ history = <<Root>>

\* new HomePage()
PageNew ==
  /\ pages = <<>>
  /\ pages' = <<[cls |-> "Home", element |-> NullRef, scene |-> NullRef,
                 tree |-> NoTree]>>
  /\ log' = <<>>
  /\ UNCHANGED <<routes, scenes, elements, container, currentPage, title,
                 scrollY, history, histIdx, active>>

\* create() of the page, as the router calls it: on a page that holds no
\* element
CreateHome ==
  \E tpl \in Markups :
    LET s == HomeCreateWith(Call(State, "create", 1), 1, tpl)
    IN /\ pages # <<>>
       /\ pages[1].element = NullRef
       /\ elements < MaxCreates
       /\ Commit(s)

\* destroy() of the page, as the router calls it
DestroyHome ==
  /\ pages # <<>>
  /\ pages[1].element # NullRef
  /\ Commit(PageDestroy(State, 1))

\* the user clicks checkbox c of the created page
ChangeOn(c) ==
  /\ pages # <<>>
  /\ pages[1].element # NullRef
  /\ Commit(UserChange(State, 1, c))

Change == \E c \in Checkboxes : ChangeOn(c)

PageNext ==
  \/ PageNew
  \/ CreateHome
  \/ DestroyHome
  \/ Change

PageSpec == PageInit /\ [][PageNext]_vars

\* ------------------------------------------------------- reading the log
\* positions of the calls of op in a log
Ops(l, op) == {k \in DOMAIN l : l[k].op = op}

\* positions of the calls of op with argument arg in a log
OpsOn(l, op, arg) == {k \in DOMAIN l : l[k].op = op /\ l[k].arg = arg}

Has(l, op) == Ops(l, op) # {}

\* positions of the Page lifecycle calls in a log
Lifecycle(l) == Ops(l, "create") \cup Ops(l, "destroy")

\* The step ran handleRouteChange, and it resolved the location to a page.
ResolvedStep == Has(log', "handleRouteChange") /\ Resolve(State') # NullRef

\* The pages that have been created and not destroyed since.
Live == {i \in DOMAIN pages : pages[i].element # NullRef}

SameOrigin(a) == OriginOf(a.href) = LocationOrigin

\* The anchors of the application's own links: same origin, no marker.
InAppAnchors == {a \in Anchors : SameOrigin(a) /\ ~a.external.has}

\* The anchors that lead to another origin.
CrossOriginAnchors == {a \in Anchors : ~SameOrigin(a)}

\* The anchors that carry data-external, with any value.
MarkedAnchors == {a \in Anchors : a.external.has}

\* The step is a call of start() or navigate(): both end in
\* setupNavHighlighting, and only a click calls preventDefault before.
StartOrNavigateStep ==
  /\ Has(log', "handleRouteChange")
  /\ Has(log', "setupNavHighlighting")
  /\ ~Has(log', "preventDefault")

\* ----------------------------------------------------------------- claims

\* C1: whenever a route change resolves while a page P is mounted, destroy()
\* is called exactly once in that handler, on P, and that call comes before
\* the container is cleared and before create() of the resolved page, also
\* when the resolved page is P itself.
C1_DestroyOnceBeforeClearAndCreate ==
  [][(currentPage # NullRef /\ ResolvedStep) =>
       /\ Cardinality(Ops(log', "destroy")) = 1
       /\ Cardinality(OpsOn(log', "destroy", currentPage)) = 1
       /\ Cardinality(Ops(log', "clear")) = 1
       /\ Cardinality(Ops(log', "create")) = 1
       /\ \A d \in Ops(log', "destroy") :
            \A k \in Ops(log', "clear") \cup Ops(log', "create") : d < k]_vars

\* C1 witness: a handler has destroyed the mounted page and created that
\* same page again.
C1_Witness ==
  \E i \in DOMAIN pages :
    /\ OpsOn(log, "destroy", i) # {}
    /\ OpsOn(log, "create", i) # {}

\* C2: the container never holds more than one page root element, and while
\* currentPage is set its only child is the element currentPage's latest
\* create() returned.
C2_ContainerHoldsCurrentPage ==
  /\ Len(container) <= 1
  /\ currentPage # NullRef =>
       /\ pages[currentPage].element # NullRef
       /\ container = <<pages[currentPage].element>>

\* C2 witness: a page is mounted after an earlier page had been mounted.
C2_Witness ==
  /\ currentPage # NullRef
  /\ elements >= 2
  /\ Len(container) = 1

\* C3: start() or navigate(p) with the location at a registered path p calls
\* create() exactly once, on the instance registered for p, mounts the new
\* element it returns, records the instance as currentPage and sets the
\* title to that instance's getTitle().
C3_RegisteredPathMounts ==
  [][(StartOrNavigateStep /\ Location(State') \in DOMAIN routes) =>
       LET i == routes[Location(State')]
       IN /\ Cardinality(Ops(log', "create")) = 1
          /\ Cardinality(OpsOn(log', "create", i)) = 1
          /\ elements' = elements + 1
          /\ pages'[i].element = elements'
          /\ container' = <<elements'>>
          /\ currentPage' = i
          /\ title' = PageTitle(State', i)]_vars

\* C3 witness: navigate(p) has mounted the page registered for p over a
\* page of the other class.
C3_Witness ==
  /\ Has(log, "pushState")
  /\ ~Has(log, "preventDefault")
  /\ Location(State) \in DOMAIN routes
  /\ \E d \in Ops(log, "destroy") :
       pages[log[d].arg].cls # pages[routes[Location(State)]].cls
  /\ OpsOn(log, "create", routes[Location(State)]) # {}

\* C4: a route change at a path with no exact registration mounts the page
\* registered for '*' when there is one, with that page's title; a path
\* with an exact registration mounts the exact page, whether or not '*' is
\* registered.
C4_WildcardFallback ==
  [][Has(log', "handleRouteChange") =>
       LET path == Location(State')
       IN /\ (path \notin DOMAIN routes /\ Star \in DOMAIN routes) =>
               /\ currentPage' = routes[Star]
               /\ container' = <<pages'[routes[Star]].element>>
               /\ OpsOn(log', "create", routes[Star]) # {}
               /\ title' = PageTitle(State', routes[Star])
          /\ path \in DOMAIN routes =>
               /\ currentPage' = routes[path]
               /\ OpsOn(log', "create", routes[path]) # {}
               /\ title' = PageTitle(State', routes[path])]_vars

\* C4 witness: the wildcard page has been mounted at an unregistered path
\* while exact routes exist.
C4_Witness ==
  /\ Has(log, "handleRouteChange")
  /\ Location(State) \notin DOMAIN routes
  /\ Star \in DOMAIN routes
  /\ DOMAIN routes # {Star}
  /\ currentPage = routes[Star]
  /\ OpsOn(log, "create", routes[Star]) # {}

\* C5: a route change at a path with neither an exact route nor a '*' route
\* calls no destroy(), create(), clear or scrollTo and leaves currentPage,
\* the container, the title, the scroll position, the pages and the scenes
\* as they were.
C5_UnresolvedIsNoOp ==
  [][(Has(log', "handleRouteChange") /\ Resolve(State') = NullRef) =>
       /\ ~Has(log', "destroy") /\ ~Has(log', "create")
       /\ ~Has(log', "clear") /\ ~Has(log', "append")
       /\ ~Has(log', "scrollTo")
       /\ UNCHANGED <<currentPage, container, title, scrollY, pages, scenes,
                      elements>>]_vars

\* C5 witness: a route change found no page while a page was mounted and
\* the window was scrolled down.
C5_Witness ==
  /\ Has(log, "handleRouteChange")
  /\ Resolve(State) = NullRef
  /\ currentPage # NullRef
  /\ scrollY = 1

\* C6: a click inside a same-origin anchor without the external marker
\* calls preventDefault and leaves history, currentPage, container, title
\* and all other router state as navigate(anchor.pathname) leaves them.
C6_ClickEqualsNavigate ==
  \A a \in InAppAnchors :
    LET c == OnClick(State, a)
        n == RouterNavigate(State, PathnameOf(a.href))
    IN /\ Cardinality(Ops(c.log, "preventDefault")) = 1
       /\ c.log[1].op = "preventDefault"
       /\ Tail(c.log) = n.log
       /\ [c EXCEPT !.log = <<>>] = [n EXCEPT !.log = <<>>]

\* C6 witness: an intercepted click has navigated to /x and mounted a page.
C6_Witness ==
  /\ Has(log, "preventDefault")
  /\ Has(log, "create")
  /\ Location(State) = PathX
  /\ currentPage # NullRef

\* C7: a click inside an anchor whose origin differs from the document's
\* origin is never intercepted: no preventDefault, no pushState, and
\* history and mount state stay as they were.
C7_CrossOriginNotIntercepted ==
  [][\A a \in CrossOriginAnchors :
       ClickOn(a) =>
         /\ ~Has(log', "preventDefault")
         /\ ~Has(log', "pushState")
         /\ UNCHANGED <<history, histIdx, currentPage, container, title,
                        pages, scenes>>]_vars

\* C8: a click inside an anchor that carries data-external, whatever its
\* value, is never intercepted: no preventDefault, no pushState, and
\* history and mount state stay as they were.
C8_MarkedNotIntercepted ==
  [][\A a \in MarkedAnchors :
       ClickOn(a) =>
         /\ ~Has(log', "preventDefault")
         /\ ~Has(log', "pushState")
         /\ UNCHANGED <<history, histIdx, currentPage, container, title,
                        pages, scenes>>]_vars

\* C9: at no point are two pages created and not yet destroyed, and in
\* every handler each create() that is not the first ever is immediately
\* preceded, among the Page lifecycle calls, by destroy() of the page
\* created last.
C9_DestroyImmediatelyBeforeCreate ==
  [][/\ Cardinality(Live') <= 1
     /\ \A c \in Ops(log', "create") :
          elements > 0 =>
            /\ \E i \in Live : pages[i].element = elements
            /\ \E d \in Ops(log', "destroy") :
                 /\ d < c
                 /\ pages[log'[d].arg].element = elements
                 /\ \A k \in Lifecycle(log') : ~(d < k /\ k < c)]_vars

\* C9 witness: a popstate handler has destroyed the page created before it
\* and created the next one.
C9_Witness ==
  /\ elements >= 2
  /\ Has(log, "handleRouteChange")
  /\ ~Has(log, "pushState")
  /\ ~Has(log, "setupNavHighlighting")
  /\ Has(log, "destroy")
  /\ Has(log, "create")

\* The dispose() calls of a log.
Disposals(l) == Ops(l, "dispose")

\* C10: destroy() of a HomePage disposes the scene its create() made
\* exactly once and then holds neither scene nor element; a second
\* destroy() disposes nothing; every scene is disposed at most once, a
\* scene still held by its page not at all and a scene no longer held
\* exactly once; every dispose() in a handler directly follows a destroy().
C10_SceneDisposedOnce ==
  /\ \A sc \in DOMAIN scenes :
       /\ scenes[sc].disposeCount <= 1
       /\ scenes[sc].disposeCount = 0 <=>
            (\E i \in DOMAIN pages : pages[i].scene = sc)
  /\ \A k \in Disposals(log) : k > 1 /\ log[k - 1].op = "destroy"
  /\ \A i \in DOMAIN pages :
       pages[i].cls = "Home" =>
         LET d1 == PageDestroy(State, i)
             d2 == PageDestroy(d1, i)
             sc == pages[i].scene
         IN /\ d1.pages[i].scene = NullRef
            /\ d1.pages[i].element = NullRef
            /\ sc # NullRef =>
                 /\ Cardinality(Disposals(d1.log)) = 1
                 /\ Cardinality(OpsOn(d1.log, "dispose", sc)) = 1
                 /\ d1.scenes[sc].disposeCount = 1
            /\ sc = NullRef => Disposals(d1.log) = {}
            /\ d2.scenes = d1.scenes
            /\ Disposals(d2.log) = Disposals(d1.log)

\* C10 witness: one scene has been disposed by its page's destroy() and the
\* page holds a newer scene.
C10_Witness ==
  \E sc \in DOMAIN scenes :
    /\ scenes[sc].disposeCount = 1
    /\ OpsOn(log, "dispose", sc) # {}
    /\ \E i \in DOMAIN pages : pages[i].scene # NullRef /\ pages[i].scene > sc


\* C14: a popstate event runs handleRouteChange once against the location
\* the traversal has moved to, mounting the page that location resolves to,
\* and performs no pushState: the history entries stay as they were and the
\* current entry is the one the browser moved to.
C14_PopstateKeepsHistory ==
  [][\A delta \in {-1, 1} :
       PopstateBy(delta) =>
         /\ history' = history
         /\ histIdx' = histIdx + delta
         /\ ~Has(log', "pushState")
         /\ Cardinality(Ops(log', "handleRouteChange")) = 1
         /\ Resolve(State') # NullRef =>
              /\ currentPage' = Resolve(State')
              /\ OpsOn(log', "create", Resolve(State')) # {}
              /\ container' = <<elements'>>]_vars

\* C14 witness: a traversal back to the first of two entries has mounted
\* the page that entry resolves to.
C14_Witness ==
  /\ Len(history) = 2
  /\ histIdx = 1
  /\ Has(log, "handleRouteChange")
  /\ ~Has(log, "setupNavHighlighting")
  /\ currentPage # NullRef
  /\ currentPage = Resolve(State)

\* C15: navigate(path) calls pushState exactly once, which makes path the
\* entry after the current one, and calls handleRouteChange once and only
\* after it, so that the resolution reads path as the location; the same
\* holds when path is already the current location.
C15_NavigatePushesThenResolves ==
  \A path \in Pathnames :
    LET n == RouterNavigate(State, path)
    IN /\ Cardinality(Ops(n.log, "pushState")) = 1
       /\ Cardinality(Ops(n.log, "handleRouteChange")) = 1
       /\ \A p \in Ops(n.log, "pushState") :
            \A h \in Ops(n.log, "handleRouteChange") : p < h
       /\ n.history = Append(SubSeq(history, 1, histIdx), path)
       /\ n.histIdx = histIdx + 1
       /\ Location(n) = path
       /\ Resolve(n) # NullRef =>
            /\ n.currentPage = Resolve(n)
            /\ n.currentPage =
                 IF path \in DOMAIN routes THEN routes[path]
                 ELSE routes[Star]
            /\ OpsOn(n.log, "create", n.currentPage) # {}

\* C15 witness: navigate(p) has run with p already the current location and
\* has mounted p's page over the page mounted before.
C15_Witness ==
  /\ Has(log, "pushState")
  /\ ~Has(log, "preventDefault")
  /\ histIdx = 2
  /\ history[1] = history[2]
  /\ Has(log, "destroy")
  /\ currentPage # NullRef

\* C16: addRoute on a path that is already registered leaves one entry for
\* that path, the instance constructed by this call; the entries of all
\* other paths stay as they were, and a resolution of that path from then
\* on creates and mounts the later instance.
C16_AddRouteReplaces ==
  [][Len(pages') = Len(pages) + 1 =>
       \E key \in RouteKeys :
         /\ DOMAIN routes' = DOMAIN routes \cup {key}
         /\ routes'[key] = Len(pages')
         /\ \A k \in DOMAIN routes \ {key} : routes'[k] = routes[k]
         /\ Location(State') = key =>
              LET m == HandleRouteChange(State')
              IN /\ m.currentPage = Len(pages')
                 /\ OpsOn(m.log, "create", Len(pages')) # {}
                 /\ m.container = <<m.pages[Len(pages')].element>>]_vars

\* C16 witness: the current path was registered twice and the instance of
\* the second registration is the page mounted at it.
C16_Witness ==
  /\ Len(pages) = 2
  /\ DOMAIN routes = {Location(State)}
  /\ routes[Location(State)] = 2
  /\ currentPage = 2
  /\ container = <<pages[2].element>>

\* positions of the toggle calls in a log
ToggleCalls(l) == {k \in DOMAIN l : l[k].op \in ToggleNames}

\* The position at which the create() call at position k of a log has
\* returned: the appendChild of its element.
Returned(l, k) ==
  CHOOSE r \in Ops(l, "append") :
    r > k /\ \A q \in Ops(l, "append") : q > k => r <= q

\* C17: within every HomePage.create(), each of the six visibility toggles
\* is called exactly once, with the checked state of its checkbox (all are
\* checked initially), after initialize() of the scene made by this
\* create() and after all six change listeners are attached, and before
\* create() returns; no toggle is called outside create() by the router's
\* handlers; afterwards the visibility of each object is its checkbox's.
C17_CreateAppliesCheckboxes ==
  /\ \A k \in Ops(log, "create") :
       pages[log[k].arg].cls = "Home" =>
         LET i == log[k].arg
             body == {j \in DOMAIN log : k < j /\ j < Returned(log, k)}
         IN /\ Cardinality(Ops(log, "initialize") \cap body) = 1
            /\ Cardinality(Ops(log, "addChangeListener") \cap body)
                 = Cardinality(Checkboxes)
            /\ ToggleCalls(log) \subseteq body
            /\ \A c \in Checkboxes :
                 /\ Cardinality(Ops(log, ToggleName(c))) = 1
                 /\ \A j \in Ops(log, ToggleName(c)) :
                      /\ log[j].arg = BoolArg(HomeTemplate.checked[c])
                      /\ log[j].arg = BoolArg(pages[i].tree.checked[c])
                      /\ \A n \in Ops(log, "initialize") : n < j
                      /\ \A w \in Ops(log, "addChangeListener") : w < j
                 /\ scenes[pages[i].scene].visible[c]
                      = pages[i].tree.checked[c]
  /\ ToggleCalls(log) # {} => Has(log, "create")

\* C17 witness: a create() of the home page has shown the statistics
\* overlay, which the scene constructor leaves hidden.
C17_Witness ==
  \E i \in DOMAIN pages :
    /\ pages[i].cls = "Home"
    /\ OpsOn(log, "create", i) # {}
    /\ Has(log, "toggleStatsVisibility")
    /\ pages[i].scene # NullRef
    /\ scenes[pages[i].scene].visible["stats"]

C20_NotFoundStateless ==
  \A i \in DOMAIN pages :
    pages[i].cls = "NotFound" =>
      LET c == NotFoundCreate(State, i)
          d == NotFoundDestroy(State, i)
          cc == NotFoundCreate(c, i)
          dc == NotFoundCreate(d, i)
          dd == NotFoundDestroy(d, i)
      IN /\ c.pages[i].tree = NotFoundTemplate
         /\ cc.pages[i].tree = c.pages[i].tree
         /\ dc.pages[i].tree = c.pages[i].tree
         /\ pages[i].element # NullRef => pages[i].tree = c.pages[i].tree
         /\ c = [State EXCEPT !.elements = elements + 1,
                              !.pages[i].element = elements + 1,
                              !.pages[i].tree = NotFoundTemplate]
         /\ d = [State EXCEPT !.pages[i].element = NullRef,
                              !.pages[i].tree = NoTree]
         /\ dd = d

\* C20 witness: a NotFoundPage has been destroyed and created again at
\* /x and holds its second element.
C20_Witness ==
  \E i \in DOMAIN pages :
    /\ pages[i].cls = "NotFound"
    /\ OpsOn(log, "destroy", i) # {}
    /\ OpsOn(log, "create", i) # {}
    /\ Location(State) = PathX
    /\ pages[i].element = 2
    /\ pages[i].tree = NotFoundTemplate

\* The scenes the browser still holds a callback for: a requested frame or
\* a pending inactivity timeout.
Scheduled == {sc \in DOMAIN scenes :
                scenes[sc].frames # {} \/ scenes[sc].timers # {}}

\* C11: at most one scene has a requested animation frame or a pending
\* inactivity timeout, and it is the scene the mounted page holds; a
\* disposed scene has neither and no control listeners; in every handler
\* each dispose() comes before create() of the next page and before the
\* construction of the next scene.
C11_OneSceneScheduled ==
  /\ Cardinality(Scheduled) <= 1
  /\ \A sc \in Scheduled :
       /\ scenes[sc].disposeCount = 0
       /\ currentPage # NullRef
       /\ pages[currentPage].scene = sc
  /\ \A sc \in DOMAIN scenes :
       scenes[sc].disposeCount > 0 =>
         /\ scenes[sc].frames = {}
         /\ scenes[sc].timers = {}
         /\ ~scenes[sc].listening
  /\ \A d \in Ops(log, "dispose") :
       \A n \in Ops(log, "create") \cup Ops(log, "newScene") : d < n

\* C11 witness: a scene that had been interacted with is disposed, its
\* auto-rotation still suspended, and the scene made after it has both a
\* requested frame and a pending timeout.
C11_Witness ==
  \E sc \in DOMAIN scenes :
    /\ scenes[sc].disposeCount = 1
    /\ scenes[sc].controlStarted
    /\ ~scenes[sc].autoRotateEnabled
    /\ \E nx \in DOMAIN scenes :
         nx > sc /\ scenes[nx].frames # {} /\ scenes[nx].timers # {}

\* C12: every scene's onFirstInteraction callback has run once when a
\* controlstart has been dispatched to it and not at all before; a
\* controlstart runs it exactly when it is the scene's first, and a
\* controlend never runs it.
C12_FirstInteractionOnce ==
  \A sc \in DOMAIN scenes :
    /\ scenes[sc].firstInteractionCalls
         = IF scenes[sc].controlStarted THEN 1 ELSE 0
    /\ scenes[sc].listening =>
         LET st == HandleControlStart(State, sc)
             en == HandleControlEnd(State, sc)
         IN /\ Cardinality(Ops(st.log, "onFirstInteraction"))
                 = IF scenes[sc].controlStarted THEN 0 ELSE 1
            /\ st.scenes[sc].firstInteractionCalls = 1
            /\ ~Has(en.log, "onFirstInteraction")
            /\ en.scenes[sc].firstInteractionCalls
                 = scenes[sc].firstInteractionCalls

\* C12 witness: a controlstart that is not the scene's first, after a
\* controlend had set the timeout it clears, has left the callback at one
\* run.
C12_Witness ==
  /\ Has(log, "handleControlStart")
  /\ ~Has(log, "onFirstInteraction")
  /\ \E sc \in DOMAIN scenes :
       /\ OpsOn(log, "handleControlStart", sc) # {}
       /\ scenes[sc].firstInteractionCalls = 1
       /\ scenes[sc].firstInteractionDone

\* C13: a change of checkbox c on a page that holds a scene calls the
\* toggle of c exactly once, with the checkbox's new state, and no other
\* toggle; the visibility of c's object becomes the new state and that of
\* every other object stays.
C13_ChangeCallsItsToggle ==
  [][\A c \in Checkboxes :
       (ChangeOn(c) /\ pages[1].scene # NullRef) =>
         LET sc == pages[1].scene
         IN /\ pages'[1].tree.checked[c] = ~pages[1].tree.checked[c]
            /\ Len(log') = 1
            /\ log'[1].op = ToggleName(c)
            /\ log'[1].arg = BoolArg(pages'[1].tree.checked[c])
            /\ scenes'[sc].visible[c] = pages'[1].tree.checked[c]
            /\ \A o \in Checkboxes \ {c} :
                 /\ scenes'[sc].visible[o] = scenes[sc].visible[o]
                 /\ pages'[1].tree.checked[o] = pages[1].tree.checked[o]]_vars

\* C13 witness: the statistics checkbox has gone from checked to unchecked
\* and toggleStatsVisibility(false) has hidden the overlay while the pole
\* stays shown.
C13_Witness ==
  /\ log = <<[op |-> "toggleStatsVisibility", arg |-> 0]>>
  /\ pages[1].scene # NullRef
  /\ ~pages[1].tree.checked["stats"]
  /\ ~scenes[pages[1].scene].visible["stats"]
  /\ scenes[pages[1].scene].visible["pole"]

\* The markup lacks the viewport container or the canvas overlay.
ViewportAbsent(tree) == ~(tree.sceneContainer /\ tree.canvasOverlay)

\* C18: a create() that finds the viewport container or the canvas overlay
\* absent constructs no scene, attaches no change listener, calls no
\* toggle, and still holds and returns a new root element; the destroy()
\* that follows calls no dispose() and leaves the scenes as they are, and a
\* checkbox change on such a page calls nothing.
C18_AbsentViewportSkipsScene ==
  [][/\ (Has(log', "create") /\ ViewportAbsent(pages'[1].tree)) =>
          /\ ~Has(log', "newScene")
          /\ ToggleCalls(log') = {}
          /\ scenes' = scenes
          /\ pages'[1].scene = NullRef
          /\ pages'[1].tree.listeners = {}
          /\ pages'[1].element = elements'
          /\ elements' = elements + 1
          /\ LET d == PageDestroy(State', 1)
             IN /\ ~Has(d.log, "dispose")
                /\ d.scenes = scenes'
                /\ d.pages[1].element = NullRef
     /\ (Has(log', "destroy") /\ ViewportAbsent(pages[1].tree)) =>
          /\ ~Has(log', "dispose")
          /\ scenes' = scenes
     /\ (pages # <<>> /\ pages[1].element # NullRef
           /\ ViewportAbsent(pages[1].tree)) =>
          ToggleCalls(log') = {}]_vars

\* C18 witness: a page created from markup without the viewport container
\* has been destroyed: no scene was ever constructed.
C18_Witness ==
  /\ pages # <<>>
  /\ elements = 1
  /\ pages[1].element = NullRef
  /\ OpsOn(log, "destroy", 1) # {}
  /\ scenes = <<>>

\* The '.nav' links carry 'active' exactly at the location of state s.
Highlighted(s) == \A l \in NavLinks : s.active[l] <=> (l = Location(s))

\* C21: start() performs the route resolution once and then applies the
\* highlighting once, and when it returns a nav link carries 'active' if
\* and only if its pathname is the location's.
C21_StartHighlightsAfterResolution ==
  LET s == RouterStart(State)
  IN /\ Highlighted(s)
     /\ Cardinality(Ops(s.log, "handleRouteChange")) = 1
     /\ Cardinality(Ops(s.log, "setupNavHighlighting")) = 1
     /\ \A h \in Ops(s.log, "handleRouteChange") :
          \A n \in Ops(s.log, "setupNavHighlighting") : h < n
     /\ Resolve(State) # NullRef =>
          \E c \in Ops(s.log, "create") :
            \A n \in Ops(s.log, "setupNavHighlighting") : c < n

\* C21 witness: start() has run at /x, mounted a page and left the /x link
\* active and the / link not.
C21_Witness ==
  /\ Has(log, "setupNavHighlighting")
  /\ ~Has(log, "pushState")
  /\ Has(log, "create")
  /\ Location(State) = PathX
  /\ active[PathX]
  /\ ~active[Root]

\* C27: after every handler in which handleRouteChange mounts a page,
\* whether start(), navigate(), an intercepted click or a popstate, a nav
\* link carries 'active' if and only if its pathname is the location's.
C27_HighlightFollowsEveryRouteChange ==
  [][ResolvedStep => Highlighted(State')]_vars

\* C29: navigate(path) for a path that resolves to no page leaves the
\* session history and the location as they were.
C29_UnresolvedNavigateKeepsHistory ==
  [][\A path \in Pathnames :
       (NavigateTo(path) /\ Resolve(State') = NullRef) =>
         /\ history' = history
         /\ histIdx' = histIdx]_vars

\* C22: in no scene is auto-rotation running while it is switched off:
\* autoRotateEnabled implies autoRotateAllowed.
C22_EnabledImpliesAllowed ==
  \A sc \in DOMAIN scenes :
    scenes[sc].autoRotateEnabled => scenes[sc].autoRotateAllowed

\* C23: while an interaction is in progress on a scene, after a
\* controlstart and before the controlend that follows it, auto-rotation
\* is disabled.
C23_NoRotationWhileInteracting ==
  \A sc \in DOMAIN scenes :
    scenes[sc].interacting => ~scenes[sc].autoRotateEnabled

\* The scene of SceneSpec has an inactivity timeout pending.
TimerPending == scenes # <<>> /\ scenes[1].timers # {}

\* Auto-rotation of the scene of SceneSpec is enabled, or a controlstart or
\* dispose() has cleared the timeout and reset the field, or
\* toggleAutoRotate(false) has switched auto-rotation off.
ResumedOrIntervened ==
  /\ scenes # <<>>
  /\ \/ scenes[1].autoRotateEnabled
     \/ scenes[1].inactivityTimeoutId = NullRef
     \/ ~scenes[1].autoRotateAllowed

\* In every state, a controlend of the scene while auto-rotation is
\* allowed leaves exactly one timeout pending, and a controlend while it is
\* not allowed leaves none pending and autoRotateEnabled as it was.
ControlEndSchedules ==
  \A sc \in DOMAIN scenes :
    scenes[sc].listening =>
      LET en == HandleControlEnd(State, sc)
      IN IF scenes[sc].autoRotateAllowed
         THEN /\ en.scenes[sc].timers = {en.scenes[sc].inactivityTimeoutId}
              /\ en.scenes[sc].inactivityTimeoutId # NullRef
         ELSE /\ en.scenes[sc].timers = {}
              /\ en.scenes[sc].autoRotateEnabled
                   = scenes[sc].autoRotateEnabled

\* C24: a timeout set by a controlend under allowed auto-rotation leads to
\* auto-rotation enabled, unless a controlstart, toggleAutoRotate(false) or
\* dispose() comes first; a controlend under disallowed auto-rotation sets
\* no timeout and does not enable auto-rotation.
C24_TimerResumesRotation ==
  /\ []ControlEndSchedules
  /\ TimerPending ~> ResumedOrIntervened

\* C24 witness: the timeout of a controlend has expired without being
\* cleared and has enabled auto-rotation again.
C24_Witness ==
  /\ scenes # <<>>
  /\ scenes[1].controlStarted
  /\ ~scenes[1].interacting
  /\ scenes[1].autoRotateAllowed
  /\ scenes[1].autoRotateEnabled
  /\ scenes[1].inactivityTimeoutId # NullRef
  /\ scenes[1].timers = {}

\* C25: a scene has at most one inactivity timeout pending, and it is the
\* one inactivityTimeoutId names; while an interaction is in progress none
\* is pending; a controlstart leaves none pending and a controlend leaves
\* at most the one it sets.
C25_OneInactivityTimer ==
  \A sc \in DOMAIN scenes :
    /\ Cardinality(scenes[sc].timers) <= 1
    /\ scenes[sc].timers \subseteq {scenes[sc].inactivityTimeoutId}
    /\ scenes[sc].interacting => scenes[sc].timers = {}
    /\ scenes[sc].listening =>
         /\ HandleControlStart(State, sc).scenes[sc].timers = {}
         /\ Cardinality(HandleControlEnd(State, sc).scenes[sc].timers) <= 1

\* C25 witness: a timeout is pending after a second controlend: the
\* timeout of the first was cleared on the way.
C25_Witness ==
  \E sc \in DOMAIN scenes :
    /\ Has(log, "handleControlEnd")
    /\ scenes[sc].timers = {2}
    /\ scenes[sc].inactivityTimeoutId = 2

\* C26: from initialize() to dispose() a scene has exactly one animation
\* frame requested and animationId is its identifier; a disposed scene has
\* no frame requested and no timeout pending, so neither animate() nor the
\* resume callback can run on it.
C26_OneFrameUntilDispose ==
  \A sc \in DOMAIN scenes :
    /\ (scenes[sc].initialized /\ scenes[sc].disposeCount = 0) =>
         /\ scenes[sc].animationId # NullRef
         /\ scenes[sc].frames = {scenes[sc].animationId}
    /\ scenes[sc].disposeCount > 0 =>
         /\ scenes[sc].frames = {}
         /\ scenes[sc].animationId = NullRef
         /\ scenes[sc].timers = {}
         /\ scenes[sc].inactivityTimeoutId = NullRef

\* C26 witness: a scene whose frame loop had run and whose timeout had been
\* set is disposed.
C26_Witness ==
  \E sc \in DOMAIN scenes :
    /\ Has(log, "dispose")
    /\ scenes[sc].disposeCount = 1
    /\ scenes[sc].controlStarted
    /\ ~scenes[sc].interacting
    /\ scenes[sc].frames = {}

\* C28: while a created HomePage holds a scene, the visibility of each of
\* the six objects equals the checked state of its checkbox, after create()
\* and after every checkbox change; a change of one checkbox leaves the
\* visibility of the other five as it was.
C28_VisibilityFollowsCheckboxes ==
  \A i \in DOMAIN pages :
    (pages[i].element # NullRef /\ pages[i].scene # NullRef) =>
      /\ \A c \in Checkboxes :
           scenes[pages[i].scene].visible[c] = pages[i].tree.checked[c]
      /\ \A c \in Checkboxes :
           LET u == UserChange(State, i, c)
           IN \A o \in Checkboxes \ {c} :
                u.scenes[pages[i].scene].visible[o]
                  = scenes[pages[i].scene].visible[o]

\* C28 witness: after several changes three checkboxes are unchecked and
\* their objects hidden, the other three checked and shown.
C28_Witness ==
  /\ pages # <<>>
  /\ pages[1].scene # NullRef
  /\ \A c \in {"pole", "latitude", "stats"} :
       ~pages[1].tree.checked[c] /\ ~scenes[pages[1].scene].visible[c]
  /\ \A c \in {"equator", "longitude", "rendererInfo"} :
       pages[1].tree.checked[c] /\ scenes[pages[1].scene].visible[c]
====
